---- MODULE Spec2Model ----
(***************************************************************************)
(* The "kvm run" command of kvmtool (kvm-run.c): option handling, the      *)
(* one-time VM setup, the vCPU threads and the final teardown, as a state  *)
(* machine.  The orchestrator (kvm_cmd_run) is one sequential process      *)
(* whose position is pc; every vCPU thread (kvm_cpu_thread) is a process   *)
(* whose position is tpc[n].  Threads interleave freely with each other    *)
(* and with the orchestrator.                                              *)
(***************************************************************************)
EXTENDS Integers, Sequences, FiniteSets, TLC

(***************************************************************************)
(* Program constants.                                                      *)
(***************************************************************************)
MB_SHIFT == 20
MIN_RAM_SIZE_MB == 64
KVM_NR_CPUS == 255
REAL_CMDLINE_SIZE == 2048
EINVAL == 22

(***************************************************************************)
(* Bounds of the model.                                                    *)
(***************************************************************************)
\* largest in-range CPU count whose threads are run
MaxCpus == 3
\* caller command lines are built from at most this many fragments
MaxPieces == 2
\* long caller command lines reach this many characters past the buffer
MaxOver == 2
\* memory sizes are sampled this far around every limb boundary
MaxRamSlack == 1

(***************************************************************************)
(* C strings.  A string is the sequence of its characters (no NUL inside); *)
(* a char buffer is modelled by the string it holds.  A nullable           *)
(* const char * is <<>> (NULL) or <<s>> (a pointer to the string s).       *)
(***************************************************************************)
NULL == <<>>
Ptr(s) == <<s>>
Deref(p) == p[1]

Min(S) == CHOOSE x \in S : \A y \in S : x <= y
Take(s, n) == SubSeq(s, 1, IF n < Len(s) THEN n ELSE Len(s))
Rep(c, n) == [k \in 1..n |-> c]

\* line 234: the baseline, "notsc nolapic noacpi pci=conf1 console=ttyS0 "
BaselineCmdline ==
    <<"n","o","t","s","c"," ","n","o","l","a","p","i","c"," ",
      "n","o","a","c","p","i"," ","p","c","i","=","c","o","n","f","1"," ",
      "c","o","n","s","o","l","e","=","t","t","y","S","0"," ">>
\* line 236: "root=/dev/vda rw "
DefaultRoot ==
    <<"r","o","o","t","=","/","d","e","v","/","v","d","a"," ","r","w"," ">>
\* line 235: the needle "root="
RootNeedle == <<"r","o","o","t","=">>

\* a strstr that looks for the needle at the start of the haystack only
StrstrAtStart(h, n) == IF Take(h, Len(n)) = n THEN 1 ELSE 0
\* strstr(haystack, needle): the index of the first occurrence, 0 for NULL
Strstr(h, n) ==
    LET at == {k \in 1..(Len(h) - Len(n) + 1) : SubSeq(h, k, k + Len(n) - 1) = n}
    IN  IF at = {} THEN 0 ELSE Min(at)

\* strcpy(dst, src): dst holds src
Strcpy(src) == src

\* a strlcat that ignores the size of the buffer, as strcat does
StrlcatUnbounded(dst, src, size) == dst \o src
\* strlcat(dst, src, size): appends at most size - strlen(dst) - 1 characters
\* and always leaves the buffer NUL-terminated
Strlcat(dst, src, size) ==
    IF Len(dst) >= size - 1 THEN dst
    ELSE dst \o Take(src, size - Len(dst) - 1)

\* buf[size-1] = '\0' on a buffer of the given size
Terminate(buf, size) == Take(buf, size - 1)

(***************************************************************************)
(* u64 arithmetic.  A u64 is <<l0, l1, l2, l3>>, its value                 *)
(* l0 + l1*2^20 + l2*2^40 + l3*2^60 with l0..l2 < 2^20 and l3 < 2^4:       *)
(* the full 64 bits, in limbs of MB_SHIFT bits.                            *)
(***************************************************************************)
LimbBase == 2^MB_SHIFT
TopBase == 2^(64 - 3 * MB_SHIFT)
U64(n) == <<n, 0, 0, 0>>
U64Lt(a, b) ==
    \/ a[4] < b[4]
    \/ a[4] = b[4] /\ a[3] < b[3]
    \/ a[4] = b[4] /\ a[3] = b[3] /\ a[2] < b[2]
    \/ a[4] = b[4] /\ a[3] = b[3] /\ a[2] = b[2] /\ a[1] < b[1]
\* v << MB_SHIFT in 64-bit unsigned arithmetic: the bits shifted past bit 63
\* are lost
U64ShlMB(v) == <<0, v[1], v[2], v[3] % TopBase>>

\* line 38
MIN_RAM_SIZE_BYTE == U64ShlMB(U64(MIN_RAM_SIZE_MB))

(***************************************************************************)
(* The command line of the process.  parse_options consumes every option   *)
(* up to the first non-option; what the model keeps of argv is the value   *)
(* of each option the claims depend on, and args: the order of the         *)
(* "-k <kernel>" options and the non-option parameters, which decides      *)
(* kernel_filename and the EINVAL return.                                  *)
(***************************************************************************)
DefaultOpts ==
    [cpus |-> 1, mem |-> U64(MIN_RAM_SIZE_MB), image |-> FALSE, params |-> NULL,
     single_step |-> FALSE, network |-> "NULL", args |-> <<"file">>]

ArgLists == {<<>>, <<"-k">>, <<"file">>, <<"-k", "file">>, <<"file", "-k">>,
             <<"file", "file">>}

\* --cpus values: below, inside and above [1, KVM_NR_CPUS]; the in-range
\* counts whose threads are run stop at MaxCpus
CpuCounts == {-1, 0} \cup (1..MaxCpus) \cup {KVM_NR_CPUS + 1}

\* fragments of caller command lines: "root=", "roo", "t=", "x", " "
Pieces == {RootNeedle, <<"r","o","o">>, <<"t","=">>, <<"x">>, <<" ">>}
RECURSIVE PieceStrings(_)
PieceStrings(n) ==
    IF n = 0 THEN {<<>>}
    ELSE LET shorter == PieceStrings(n - 1)
         IN  shorter \cup {a \o p : a \in shorter, p \in Pieces}

\* lengths around the two places where the composition fills the buffer
LongLens ==
    {REAL_CMDLINE_SIZE - 1 - Len(BaselineCmdline) + d : d \in (-1)..MaxOver}
    \cup {REAL_CMDLINE_SIZE - 1 - Len(BaselineCmdline) - Len(DefaultRoot) + d :
            d \in (-1)..MaxOver}
LongStrings ==
    UNION {{Rep("x", n),
            RootNeedle \o Rep("x", n - Len(RootNeedle)),
            Rep("x", n - Len(RootNeedle)) \o RootNeedle} : n \in LongLens}
CallerCmdlines == PieceStrings(MaxPieces) \cup LongStrings

\* --mem values (MiB), sampled around the minimum and around every place
\* where the shift by MB_SHIFT loses bits
Near(x) == {v \in (x - MaxRamSlack)..(x + MaxRamSlack) : v >= 0 /\ v < LimbBase}
RamSamples ==
    {<<a, b, c, d>> : a \in Near(MIN_RAM_SIZE_MB) \cup {0, LimbBase - 1},
                      b \in {0, 1, LimbBase - 1},
                      c \in Near(TopBase) \cup {0, LimbBase - 1},
                      d \in {0, 1, TopBase - 1}}

\* the runs with several vCPUs; single-stepping, which is set per engine
\* before its thread starts, is tried with one and with two of them
SmpInputs ==
    {[DefaultOpts EXCEPT !.cpus = c, !.image = im, !.single_step = FALSE] :
        c \in 1..MaxCpus, im \in BOOLEAN}
    \cup {[DefaultOpts EXCEPT !.cpus = c, !.image = im, !.single_step = TRUE] :
            c \in 1..2, im \in BOOLEAN}
\* the configurations
ConfigInputs ==
    {[DefaultOpts EXCEPT !.cpus = c, !.mem = U64(m), !.image = im,
                         !.network = nw, !.args = al] :
        c \in CpuCounts \ (2..MaxCpus),
        m \in {MIN_RAM_SIZE_MB - 1, MIN_RAM_SIZE_MB},
        im \in BOOLEAN, nw \in {"NULL", "virtio", "none"}, al \in ArgLists}
\* the kernel command lines
CmdlineInputs ==
    {[DefaultOpts EXCEPT !.params = Ptr(s), !.image = im] :
        s \in CallerCmdlines, im \in BOOLEAN}
\* the memory sizes
RamInputs == {[DefaultOpts EXCEPT !.mem = m] : m \in RamSamples}

Inputs == SmpInputs \cup ConfigInputs \cup CmdlineInputs \cup RamInputs

(***************************************************************************)
(* State.                                                                  *)
(***************************************************************************)
VARIABLES
    opts,             \* the command line the process was started with
    pc,               \* position of kvm_cmd_run
    exit_status,      \* how the process ended: "none", "return", "die", "crash"
    die_msg,          \* the message of the die() that ended it
    nrcpus, ram_size, kernel_cmdline, kernel_filename, image_filename,
    single_step, network,                 \* the option statics, lines 57-71
    warned,           \* the "Limiting CPUs to 1" warning was printed
    kvm,              \* the global struct kvm *: "NULL", "valid", "deleted"
    kvm_ram_size,     \* the ram_size kvm__init was given
    disk_image,       \* kvm->disk_image: "NULL", "open", "closed"
    disk_closes,      \* calls of disk_image__close on an attached image
    null_closes,      \* calls of disk_image__close(NULL)
    in_close,         \* the threads inside disk_image__close on the image
    kvm_deletes,      \* calls of kvm__delete
    ub,               \* a closed image was closed again, or by two at once
    real_cmdline,     \* static char real_cmdline[2048]: the string it holds
    cmdline_extent,   \* bytes of real_cmdline written so far, from its start
    setup_log,        \* the one-time setup calls made so far, in order
    i,                \* the loop variable of kvm_cmd_run
    exit_code, printed,
    kvm_cpus,         \* kvm_cpus[n]: "NULL" or "vcpu"
    cpu_state,        \* engine n: "NONE", "CREATED", "RUNNING", "HALTED", "FAILED"
    singlestep_on,    \* kvm_cpu__enable_singlestep was called on engine n
    tpc,              \* position of the thread created in iteration n
    ret,              \* what that thread returned: -1 (nothing yet), 0, 1
    cpu_deletes,      \* calls of kvm_cpu__delete on engine n
    cpu_index,        \* the index kvm_cpu__init gave engine n, -1 before
    current_kvm_cpu,  \* thread n's current_kvm_cpu: an engine, -1 before
    run_by,           \* the threads that called kvm_cpu__start on engine n
    deleted_by,       \* the threads that called kvm_cpu__delete on engine n
    diag,             \* the steps of the panic path thread n has made, in order
    irq_pending       \* the interrupt injections the signal handlers requested

vars == <<opts, pc, exit_status, die_msg, nrcpus, ram_size, kernel_cmdline,
          kernel_filename, image_filename, single_step, network, warned, kvm,
          kvm_ram_size, disk_image, disk_closes, null_closes, in_close,
          kvm_deletes, ub, real_cmdline, cmdline_extent, setup_log, i,
          exit_code, printed, kvm_cpus, cpu_state, singlestep_on, tpc, ret,
          cpu_deletes, cpu_index, current_kvm_cpu, run_by, deleted_by, diag,
          irq_pending>>

optVars == <<nrcpus, ram_size, kernel_cmdline, kernel_filename, image_filename,
             single_step, network>>
diskVars == <<disk_image, disk_closes, null_closes, in_close, ub>>
cpuVars == <<kvm_cpus, cpu_state, singlestep_on, tpc, ret, cpu_deletes>>
engVars == <<cpu_index, current_kvm_cpu, run_by, deleted_by, diag>>
endVars == <<exit_status, die_msg, exit_code, printed>>
cmdlineVars == <<real_cmdline, cmdline_extent>>

CpuIds == 0..(MaxCpus - 1)
\* the id of the orchestrator's thread among the vCPU threads' ids
MAIN == -1

\* the process is running: it has neither returned from kvm_cmd_run, nor
\* called die(), nor crashed
Alive == exit_status = "none"

InitWith(inputs) ==
    /\ opts \in inputs
    /\ pc = "signal"
    /\ exit_status = "none" /\ die_msg = "" /\ exit_code = 0 /\ printed = FALSE
    /\ nrcpus = 1 /\ ram_size = U64(MIN_RAM_SIZE_MB)
    /\ kernel_cmdline = NULL /\ kernel_filename = "NULL" /\ image_filename = "NULL"
    /\ single_step = FALSE /\ network = "NULL" /\ warned = FALSE
    /\ kvm = "NULL" /\ kvm_ram_size = U64(0)
    /\ disk_image = "NULL" /\ disk_closes = 0 /\ null_closes = 0 /\ in_close = {}
    /\ kvm_deletes = 0 /\ ub = FALSE
    /\ real_cmdline = <<>> /\ cmdline_extent = 0 /\ setup_log = <<>> /\ i = 0
    /\ kvm_cpus = [n \in CpuIds |-> "NULL"]
    /\ cpu_state = [n \in CpuIds |-> "NONE"]
    /\ singlestep_on = [n \in CpuIds |-> FALSE]
    /\ tpc = [n \in CpuIds |-> "nothread"]
    /\ ret = [n \in CpuIds |-> -1]
    /\ cpu_deletes = [n \in CpuIds |-> 0]
    /\ cpu_index = [n \in CpuIds |-> -1]
    /\ current_kvm_cpu = [n \in CpuIds |-> -1]
    /\ run_by = [n \in CpuIds |-> {}]
    /\ deleted_by = [n \in CpuIds |-> {}]
    /\ diag = [n \in CpuIds |-> <<>>]
    /\ irq_pending = {}

Init == InitWith(Inputs)

(***************************************************************************)
(* How the process ends.                                                   *)
(***************************************************************************)
\* die(msg): the message is printed and the process exits, whatever its
\* threads are doing
Die(msg) ==
    /\ pc' = "exited"
    /\ exit_status' = "die" /\ die_msg' = msg
    /\ UNCHANGED <<exit_code, printed>>

\* return code; from kvm_cmd_run
Return(code) ==
    /\ pc' = "exited"
    /\ exit_status' = "return" /\ exit_code' = code
    /\ UNCHANGED <<die_msg, printed>>

Goto(next) == pc' = next /\ UNCHANGED endVars

(***************************************************************************)
(* kvm_cmd_run, lines 170-188: the option loop.                            *)
(***************************************************************************)
\* The loop over the "-k" options and the non-option parameters: an option
\* sets kernel_filename, a parameter sets it if it is still unset and is
\* refused otherwise.
RECURSIVE ParseArgs(_, _)
ParseArgs(args, kf) ==
    IF args = <<>> THEN [kernel_filename |-> kf, einval |-> FALSE]
    ELSE IF Head(args) = "-k" THEN ParseArgs(Tail(args), "opt")
    ELSE IF kf # "NULL" THEN [kernel_filename |-> kf, einval |-> TRUE]
    ELSE ParseArgs(Tail(args), "arg")

StoreOptions ==
    /\ nrcpus' = opts.cpus
    /\ ram_size' = opts.mem
    /\ kernel_cmdline' = opts.params
    /\ image_filename' = IF opts.image THEN "image" ELSE "NULL"
    /\ single_step' = opts.single_step
    /\ network' = opts.network
    /\ kernel_filename' = ParseArgs(opts.args, kernel_filename).kernel_filename

ParseOptions ==
    /\ Alive /\ pc = "parse_options"
    /\ ~ParseArgs(opts.args, kernel_filename).einval
    /\ StoreOptions
    /\ Goto("find_kernel")
    /\ UNCHANGED <<opts, irq_pending, engVars, warned, kvm, kvm_ram_size,
                   diskVars, kvm_deletes, cmdlineVars, setup_log, i, cpuVars>>

\* "Cannot handle parameter", lines 174-179
ParseOptionsRefuse ==
    /\ Alive /\ pc = "parse_options"
    /\ ParseArgs(opts.args, kernel_filename).einval
    /\ StoreOptions
    /\ Return(EINVAL)
    /\ UNCHANGED <<opts, irq_pending, engVars, warned, kvm, kvm_ram_size,
                   diskVars, kvm_deletes, cmdlineVars, setup_log, i, cpuVars>>

(***************************************************************************)
(* Lines 190-196: the kernel image.  find_host_kernel (lines 141-159)      *)
(* returns the host's kernel or NULL, as the host's /boot decides.         *)
(***************************************************************************)
KernelGiven ==
    /\ Alive /\ pc = "find_kernel"
    /\ kernel_filename # "NULL"
    /\ Goto("check_cpus")
    /\ UNCHANGED <<opts, irq_pending, engVars, optVars, warned, kvm,
                   kvm_ram_size, diskVars, kvm_deletes, cmdlineVars,
                   setup_log, i, cpuVars>>

HostKernelFound ==
    /\ Alive /\ pc = "find_kernel"
    /\ kernel_filename = "NULL"
    /\ kernel_filename' = "host"
    /\ Goto("check_cpus")
    /\ UNCHANGED <<opts, irq_pending, engVars, nrcpus, ram_size,
                   kernel_cmdline, image_filename, single_step, network,
                   warned, kvm, kvm_ram_size, diskVars, kvm_deletes,
                   cmdlineVars, setup_log, i, cpuVars>>

HostKernelMissing ==
    /\ Alive /\ pc = "find_kernel"
    /\ kernel_filename = "NULL"
    /\ Return(EINVAL)
    /\ UNCHANGED <<opts, irq_pending, engVars, optVars, warned, kvm,
                   kvm_ram_size, diskVars, kvm_deletes, cmdlineVars,
                   setup_log, i, cpuVars>>

(***************************************************************************)
(* Lines 198-208: the checks of the CPU count and of the memory size.      *)
(***************************************************************************)
CpusOutOfRange(n) == n < 1 \/ n > KVM_NR_CPUS

CheckCpusDie ==
    /\ Alive /\ pc = "check_cpus"
    /\ CpusOutOfRange(nrcpus)
    /\ Die("Number of CPUs is out of range")
    /\ UNCHANGED <<opts, irq_pending, engVars, optVars, warned, kvm,
                   kvm_ram_size, diskVars, kvm_deletes, cmdlineVars,
                   setup_log, i, cpuVars>>

\* lines 202-203: more than one CPU only prints the warning; nrcpus stays
CheckCpus ==
    /\ Alive /\ pc = "check_cpus"
    /\ ~CpusOutOfRange(nrcpus)
    /\ warned' = (nrcpus > 1)
    /\ Goto("check_ram")
    /\ UNCHANGED <<opts, irq_pending, engVars, optVars, kvm, kvm_ram_size,
                   diskVars, kvm_deletes, cmdlineVars, setup_log, i, cpuVars>>

\* a minimum check that lets the value just below the minimum pass
RamTooSmallOffByOne(r) == U64Lt(r, U64(MIN_RAM_SIZE_MB - 1))
RamTooSmall(r) == U64Lt(r, U64(MIN_RAM_SIZE_MB))

CheckRamDie ==
    /\ Alive /\ pc = "check_ram"
    /\ RamTooSmall(ram_size)
    /\ Die("Not enough memory specified")
    /\ UNCHANGED <<opts, irq_pending, engVars, optVars, warned, kvm,
                   kvm_ram_size, diskVars, kvm_deletes, cmdlineVars,
                   setup_log, i, cpuVars>>

\* line 208: ram_size <<= MB_SHIFT
CheckRam ==
    /\ Alive /\ pc = "check_ram"
    /\ ~RamTooSmall(ram_size)
    /\ ram_size' = U64ShlMB(ram_size)
    /\ Goto("term_init")
    /\ UNCHANGED <<opts, irq_pending, engVars, nrcpus, kernel_cmdline,
                   kernel_filename, image_filename, single_step, network,
                   warned, kvm, kvm_ram_size, diskVars, kvm_deletes,
                   cmdlineVars, setup_log, i, cpuVars>>

(***************************************************************************)
(* Lines 210-267: the one-time setup.                                      *)
(***************************************************************************)
\* one setup call that cannot fail in this file: it is logged and the
\* orchestrator moves on
SetupCall(here, name, next) ==
    /\ Alive /\ pc = here
    /\ setup_log' = Append(setup_log, name)
    /\ Goto(next)
    /\ UNCHANGED <<opts, irq_pending, engVars, optVars, warned, kvm,
                   kvm_ram_size, diskVars, kvm_deletes, cmdlineVars, i,
                   cpuVars>>

\* lines 210-224: the defaults of kvm_dev, console and host_ip_addr, term_init
TermInit == SetupCall("term_init", "term_init", "kvm_init")

\* line 226: kvm = kvm__init(kvm_dev, ram_size)
KvmInit ==
    /\ Alive /\ pc = "kvm_init"
    /\ kvm' = "valid"
    /\ kvm_ram_size' = ram_size
    /\ setup_log' = Append(setup_log, "kvm__init")
    /\ Goto("disk_open")
    /\ UNCHANGED <<opts, irq_pending, engVars, optVars, warned, diskVars,
                   kvm_deletes, cmdlineVars, i, cpuVars>>

\* lines 228-232
NoDiskImage ==
    /\ Alive /\ pc = "disk_open"
    /\ image_filename = "NULL"
    /\ Goto("cmdline")
    /\ UNCHANGED <<opts, irq_pending, engVars, optVars, warned, kvm,
                   kvm_ram_size, diskVars, kvm_deletes, cmdlineVars,
                   setup_log, i, cpuVars>>

DiskImageOpen ==
    /\ Alive /\ pc = "disk_open"
    /\ image_filename # "NULL"
    /\ disk_image' = "open"
    /\ setup_log' = Append(setup_log, "disk_image__open")
    /\ Goto("cmdline")
    /\ UNCHANGED <<opts, irq_pending, engVars, optVars, warned, kvm,
                   kvm_ram_size, disk_closes, null_closes, in_close, ub,
                   kvm_deletes, cmdlineVars, i, cpuVars>>

\* lines 229-231, were the failure reported and startup carried on
DiskImageOpenDieTolerated ==
    /\ Alive /\ pc = "disk_open"
    /\ image_filename # "NULL"
    /\ die_msg' = "unable to load disk image"
    /\ pc' = "cmdline"
    /\ UNCHANGED <<opts, irq_pending, engVars, optVars, warned, kvm,
                   kvm_ram_size, diskVars, kvm_deletes, cmdlineVars, setup_log,
                   i, cpuVars, exit_status, exit_code, printed>>
\* lines 229-231: disk_image__open returns NULL
DiskImageOpenDie ==
    /\ Alive /\ pc = "disk_open"
    /\ image_filename # "NULL"
    /\ Die("unable to load disk image")
    /\ UNCHANGED <<opts, irq_pending, engVars, optVars, warned, kvm,
                   kvm_ram_size, diskVars, kvm_deletes, cmdlineVars,
                   setup_log, i, cpuVars>>

\* lines 234-243: the kernel command line
NeedsDefaultRoot(cmdline) ==
    cmdline = NULL \/ Strstr(Deref(cmdline), RootNeedle) = 0

ComposedCmdline(cmdline) ==
    LET base == Strcpy(BaselineCmdline)
        rooted == IF NeedsDefaultRoot(cmdline)
                  THEN Strlcat(base, DefaultRoot, REAL_CMDLINE_SIZE)
                  ELSE base
    IN  IF cmdline # NULL
        THEN Terminate(Strlcat(rooted, Deref(cmdline), REAL_CMDLINE_SIZE),
                       REAL_CMDLINE_SIZE)
        ELSE rooted

\* the bytes of the buffer these calls write, the terminating NULs included:
\* each strcpy and strlcat writes its result and one NUL, line 242 writes
\* the buffer's last byte
Max(a, b) == IF a >= b THEN a ELSE b
ComposedExtent(cmdline) ==
    LET base == Strcpy(BaselineCmdline)
        rooted == IF NeedsDefaultRoot(cmdline)
                  THEN Strlcat(base, DefaultRoot, REAL_CMDLINE_SIZE)
                  ELSE base
    IN  IF cmdline # NULL
        THEN Max(Len(Strlcat(rooted, Deref(cmdline), REAL_CMDLINE_SIZE)) + 1,
                 REAL_CMDLINE_SIZE)
        ELSE Len(rooted) + 1

ComposeCmdline ==
    /\ Alive /\ pc = "cmdline"
    /\ real_cmdline' = ComposedCmdline(kernel_cmdline)
    /\ cmdline_extent' = ComposedExtent(kernel_cmdline)
    /\ Goto("load_kernel")
    /\ UNCHANGED <<opts, irq_pending, engVars, optVars, warned, kvm,
                   kvm_ram_size, diskVars, kvm_deletes, setup_log, i, cpuVars>>

\* lines 245-247
LoadKernel == SetupCall("load_kernel", "kvm__load_kernel", "ioport")

LoadKernelDie ==
    /\ Alive /\ pc = "load_kernel"
    /\ Die("unable to load kernel")
    /\ UNCHANGED <<opts, irq_pending, engVars, optVars, warned, kvm,
                   kvm_ram_size, diskVars, kvm_deletes, cmdlineVars,
                   setup_log, i, cpuVars>>

\* lines 249-259
IoportSetupLegacy == SetupCall("ioport", "ioport__setup_legacy", "bios")
SetupBios == SetupCall("bios", "kvm__setup_bios", "serial")
Serial8250Init == SetupCall("serial", "serial8250__init", "pci")
PciInit == SetupCall("pci", "pci__init", "virtio_blk")
VirtioBlkInit == SetupCall("virtio_blk", "virtio_blk__init", "virtio_console")
\* line 259, were the vCPUs created and spawned right after it
VirtioConsoleInitThenSpawn ==
    SetupCall("virtio_console", "virtio_console__init", "cpu_init")
\* line 259
VirtioConsoleInit ==
    SetupCall("virtio_console", "virtio_console__init", "network")

\* lines 261-265: strncmp(network, "virtio", 6)
IsVirtioNetwork(nw) == nw = "virtio"

NetworkDefault ==
    /\ Alive /\ pc = "network"
    /\ network' = IF network = "NULL" THEN "none" ELSE network
    /\ ~IsVirtioNetwork(network')
    /\ Goto("timer")
    /\ UNCHANGED <<opts, irq_pending, engVars, nrcpus, ram_size,
                   kernel_cmdline, kernel_filename, image_filename,
                   single_step, warned, kvm, kvm_ram_size, diskVars,
                   kvm_deletes, cmdlineVars, setup_log, i, cpuVars>>

VirtioNetInit ==
    /\ IsVirtioNetwork(network)
    /\ SetupCall("network", "virtio_net__init", "timer")

\* line 267
StartTimer == SetupCall("timer", "kvm__start_timer", "cpu_init")

(***************************************************************************)
(* disk_image__close(kvm->disk_image), called at lines 129 and 291.  A     *)
(* call is entered and left in two steps, so that two threads can be       *)
(* inside it together.  Closing releases the image: closing it again, or   *)
(* from two threads at once, works on released memory (ub).  With no image *)
(* attached the pointer is NULL and the call has nothing to release.       *)
(***************************************************************************)
DiskImageCloseEnter(t) ==
    IF disk_image = "NULL"
    THEN /\ null_closes' = null_closes + 1
         /\ UNCHANGED <<disk_image, disk_closes, in_close, ub>>
    ELSE /\ disk_closes' = disk_closes + 1
         /\ in_close' = in_close \cup {t}
         /\ ub' = (ub \/ disk_image = "closed" \/ in_close # {})
         /\ UNCHANGED <<disk_image, null_closes>>

DiskImageCloseLeave(t) ==
    IF t \in in_close
    THEN /\ disk_image' = "closed"
         /\ in_close' = in_close \ {t}
         /\ UNCHANGED <<disk_closes, null_closes, ub>>
    ELSE UNCHANGED diskVars

\* what the released image's second close does is undefined: the process
\* goes on, or it is killed at some later point
Crash ==
    /\ Alive /\ ub
    /\ pc' = "exited" /\ exit_status' = "crash"
    /\ UNCHANGED <<opts, irq_pending, engVars, optVars, warned, kvm,
                   kvm_ram_size, diskVars, kvm_deletes, cmdlineVars, setup_log,
                   i, cpuVars, die_msg, exit_code, printed>>

(***************************************************************************)
(* Lines 46-55 and 167-168: the two signal handlers.  Each hands the       *)
(* global kvm to the devices' injection entries.  A handler runs whenever  *)
(* its signal arrives once it is installed: SIGQUIT from the operator at   *)
(* any moment, SIGALRM from the timer kvm__start_timer arms (line 267),    *)
(* which nothing in kvm_cmd_run disarms.  The injection entries are not    *)
(* part of this file: they record the request (irq_pending); handed a kvm  *)
(* that is NULL or already deleted, they record it or fault.               *)
(***************************************************************************)
HandlersInstalled == pc # "signal"
TimerArmed == \E k \in 1..Len(setup_log) : setup_log[k] = "kvm__start_timer"

\* lines 167-168: signal(SIGQUIT, ...); signal(SIGALRM, ...)
InstallSignalHandlers ==
    /\ Alive /\ pc = "signal"
    /\ Goto("parse_options")
    /\ UNCHANGED <<opts, irq_pending, engVars, optVars, warned, kvm,
                   kvm_ram_size, diskVars, kvm_deletes, cmdlineVars, setup_log,
                   i, cpuVars>>

\* a handler's body, were it to end the engines that are running
InjectAndStop(requests) ==
    /\ irq_pending' = irq_pending \cup requests
    /\ cpu_state' = [e \in CpuIds |->
                        IF cpu_state[e] = "RUNNING" THEN "FAILED"
                        ELSE cpu_state[e]]
    /\ UNCHANGED <<opts, engVars, pc, endVars, optVars, warned, kvm,
                   kvm_ram_size, diskVars, kvm_deletes, cmdlineVars, setup_log,
                   i, kvm_cpus, singlestep_on, tpc, ret, cpu_deletes>>
\* a handler's body: the injections it asks for, nothing else
Inject(requests) ==
    /\ irq_pending' = irq_pending \cup requests
    /\ UNCHANGED <<opts, engVars, pc, endVars, optVars, warned, kvm,
                   kvm_ram_size, diskVars, kvm_deletes, cmdlineVars, setup_log,
                   i, cpuVars>>

\* lines 46-49: handle_sigquit calls serial8250__inject_sysrq(kvm)
SigquitRequests == {"sysrq"}

HandleSigquit ==
    /\ Alive /\ HandlersInstalled
    /\ Inject(SigquitRequests)

\* lines 51-55: handle_sigalrm calls serial8250__inject_interrupt(kvm) and
\* virtio_console__inject_interrupt(kvm)
SigalrmRequests == {"serial", "virtio_console"}

\* lines 51-55, without the call of line 54
HandleSigalrmSerialOnly ==
    /\ Alive /\ HandlersInstalled /\ TimerArmed
    /\ Inject({"serial"})
HandleSigalrm ==
    /\ Alive /\ HandlersInstalled /\ TimerArmed
    /\ Inject(SigalrmRequests)

\* lines 48, 53, 54: the kvm a handler passes on is NULL before kvm__init
\* (line 226) and released after kvm__delete (line 292); an injection entry
\* that looks into it may end the process there
HandlerFault ==
    /\ Alive /\ HandlersInstalled /\ kvm # "valid"
    /\ pc' = "exited" /\ exit_status' = "crash"
    /\ UNCHANGED <<opts, irq_pending, engVars, optVars, warned, kvm,
                   kvm_ram_size, diskVars, kvm_deletes, cmdlineVars, setup_log,
                   i, cpuVars, die_msg, exit_code, printed>>

(***************************************************************************)
(* Lines 269-279: every engine is created and its thread spawned, one      *)
(* engine after the other.                                                 *)
(***************************************************************************)
CpuInit ==
    /\ Alive /\ pc = "cpu_init" /\ i < nrcpus
    /\ kvm_cpus' = [kvm_cpus EXCEPT ![i] = "vcpu"]
    /\ cpu_state' = [cpu_state EXCEPT ![i] = "CREATED"]
    /\ cpu_index' = [cpu_index EXCEPT ![i] = i]
    /\ Goto("singlestep")
    /\ UNCHANGED <<opts, irq_pending, current_kvm_cpu, run_by, deleted_by,
                   diag, optVars, warned, kvm, kvm_ram_size, diskVars,
                   kvm_deletes, cmdlineVars, setup_log, i, singlestep_on,
                   tpc, ret, cpu_deletes>>

CpuInitDie ==
    /\ Alive /\ pc = "cpu_init" /\ i < nrcpus
    /\ Die("unable to initialize KVM VCPU")
    /\ UNCHANGED <<opts, irq_pending, engVars, optVars, warned, kvm,
                   kvm_ram_size, diskVars, kvm_deletes, cmdlineVars,
                   setup_log, i, cpuVars>>

\* lines 274-275
EnableSinglestep ==
    /\ Alive /\ pc = "singlestep"
    /\ singlestep_on' = [singlestep_on EXCEPT ![i] = single_step]
    /\ Goto("pthread_create")
    /\ UNCHANGED <<opts, irq_pending, engVars, optVars, warned, kvm,
                   kvm_ram_size, diskVars, kvm_deletes, cmdlineVars,
                   setup_log, i, kvm_cpus, cpu_state, tpc, ret, cpu_deletes>>

\* line 277: the engine handed to the new thread as its argument
PthreadArgFirst(k) == 0
PthreadArg(k) == k

\* line 277: the new thread starts in kvm_cpu_thread with kvm_cpus[i] as its
\* argument, makes it its current_kvm_cpu (line 113) and enters
\* kvm_cpu__start (line 115); then i++
PthreadCreate ==
    /\ Alive /\ pc = "pthread_create"
    /\ tpc' = [tpc EXCEPT ![i] = "start"]
    /\ current_kvm_cpu' = [current_kvm_cpu EXCEPT ![i] = PthreadArg(i)]
    /\ cpu_state' = [cpu_state EXCEPT ![PthreadArg(i)] = "RUNNING"]
    /\ run_by' = [run_by EXCEPT ![PthreadArg(i)] = @ \cup {i}]
    /\ i' = i + 1
    /\ Goto("cpu_init")
    /\ UNCHANGED <<opts, irq_pending, cpu_index, deleted_by, diag, optVars,
                   warned, kvm, kvm_ram_size, diskVars, kvm_deletes,
                   cmdlineVars, setup_log, kvm_cpus, singlestep_on, ret,
                   cpu_deletes>>

PthreadCreateDie ==
    /\ Alive /\ pc = "pthread_create"
    /\ Die("unable to create KVM VCPU thread")
    /\ UNCHANGED <<opts, irq_pending, engVars, optVars, warned, kvm,
                   kvm_ram_size, diskVars, kvm_deletes, cmdlineVars,
                   setup_log, i, cpuVars>>

\* the first loop ends, the second starts with i = 0
SpawnLoopEnd ==
    /\ Alive /\ pc = "cpu_init" /\ ~(i < nrcpus)
    /\ i' = 0
    /\ Goto("join")
    /\ UNCHANGED <<opts, irq_pending, engVars, optVars, warned, kvm,
                   kvm_ram_size, diskVars, kvm_deletes, cmdlineVars,
                   setup_log, cpuVars>>

(***************************************************************************)
(* kvm_cpu_thread, lines 111-137.                                          *)
(***************************************************************************)
ThreadStep(n, here, next) ==
    /\ Alive /\ tpc[n] = here
    /\ tpc' = [tpc EXCEPT ![n] = next]

\* line 115: kvm_cpu__start returns 0, the guest has halted
CpuStartHalt(n) ==
    /\ ThreadStep(n, "start", "delete_halted")
    /\ cpu_state' = [cpu_state EXCEPT ![current_kvm_cpu[n]] = "HALTED"]
    /\ UNCHANGED <<opts, irq_pending, engVars, pc, endVars, optVars, warned,
                   kvm, kvm_ram_size, diskVars, kvm_deletes, cmdlineVars,
                   setup_log, i, kvm_cpus, singlestep_on, ret, cpu_deletes>>

\* lines 115-116: kvm_cpu__start returns non-zero, goto panic_kvm
CpuStartFail(n) ==
    /\ ThreadStep(n, "start", "report")
    /\ cpu_state' = [cpu_state EXCEPT ![current_kvm_cpu[n]] = "FAILED"]
    /\ UNCHANGED <<opts, irq_pending, engVars, pc, endVars, optVars, warned,
                   kvm, kvm_ram_size, diskVars, kvm_deletes, cmdlineVars,
                   setup_log, i, kvm_cpus, singlestep_on, ret, cpu_deletes>>

\* a step of the panic path that touches only this thread's engine
PanicStep(n, here, next) ==
    /\ ThreadStep(n, here, next)
    /\ diag' = [diag EXCEPT ![n] = Append(@, here)]
    /\ UNCHANGED <<opts, irq_pending, cpu_index, current_kvm_cpu, run_by,
                   deleted_by, pc, endVars, optVars, warned, kvm, kvm_ram_size,
                   diskVars, kvm_deletes, cmdlineVars, setup_log, i, kvm_cpus,
                   cpu_state, singlestep_on, ret, cpu_deletes>>

\* lines 123-128
ReportExitReason(n) == PanicStep(n, "report", "disk_close")

\* line 129
ThreadDiskCloseEnter(n) ==
    /\ ThreadStep(n, "disk_close", "in_disk_close")
    /\ DiskImageCloseEnter(n)
    /\ diag' = [diag EXCEPT ![n] = Append(@, "disk_close")]
    /\ UNCHANGED <<opts, irq_pending, cpu_index, current_kvm_cpu, run_by,
                   deleted_by, pc, endVars, optVars, warned, kvm, kvm_ram_size,
                   kvm_deletes, cmdlineVars, setup_log, i, kvm_cpus, cpu_state,
                   singlestep_on, ret, cpu_deletes>>

ThreadDiskCloseLeave(n) ==
    /\ ThreadStep(n, "in_disk_close", "show_registers")
    /\ DiskImageCloseLeave(n)
    /\ UNCHANGED <<opts, irq_pending, engVars, pc, endVars, optVars, warned,
                   kvm, kvm_ram_size, kvm_deletes, cmdlineVars, setup_log, i,
                   kvm_cpus, cpu_state, singlestep_on, ret, cpu_deletes>>

\* lines 130-132
ShowRegisters(n) == PanicStep(n, "show_registers", "show_code")
ShowCode(n) == PanicStep(n, "show_code", "show_page_tables")
ShowPageTables(n) == PanicStep(n, "show_page_tables", "delete_failed")

\* kvm_cpu__delete(current_kvm_cpu); return value;
DeleteAndReturn(n, here, value) ==
    /\ ThreadStep(n, here, "returned")
    /\ cpu_deletes' = [cpu_deletes EXCEPT ![current_kvm_cpu[n]] = @ + 1]
    /\ deleted_by' = [deleted_by EXCEPT ![current_kvm_cpu[n]] = @ \cup {n}]
    /\ ret' = [ret EXCEPT ![n] = value]
    /\ UNCHANGED <<opts, irq_pending, cpu_index, current_kvm_cpu, run_by, diag,
                   pc, endVars, optVars, warned, kvm, kvm_ram_size, diskVars,
                   kvm_deletes, cmdlineVars, setup_log, i, kvm_cpus, cpu_state,
                   singlestep_on>>

\* lines 118-120
ThreadReturnHalted(n) == DeleteAndReturn(n, "delete_halted", 0)
\* lines 134-136, were the failing thread to return 0
ThreadReturnFailedZero(n) == DeleteAndReturn(n, "delete_failed", 0)
\* lines 134-136
ThreadReturnFailed(n) == DeleteAndReturn(n, "delete_failed", 1)

(***************************************************************************)
(* Lines 281-297: the joins, the teardown and the exit code.               *)
(***************************************************************************)
\* an exit code that the last joined thread decides alone
JoinExitCodeLast(code, value) == value
\* lines 287-288
JoinExitCode(code, value) == IF value # 0 THEN 1 ELSE code

\* pthread_join returns once the thread of engine i has returned; on a
\* thread that was created and not yet joined it does not fail
PthreadJoin ==
    /\ Alive /\ pc = "join" /\ i < nrcpus
    /\ tpc[i] = "returned"
    /\ exit_code' = JoinExitCode(exit_code, ret[i])
    /\ i' = i + 1
    /\ UNCHANGED <<opts, irq_pending, engVars, pc, exit_status, die_msg,
                   printed, optVars, warned, kvm, kvm_ram_size, diskVars,
                   kvm_deletes, cmdlineVars, setup_log, cpuVars>>

JoinLoopEnd ==
    /\ Alive /\ pc = "join" /\ ~(i < nrcpus)
    /\ Goto("disk_close")
    /\ UNCHANGED <<opts, irq_pending, engVars, optVars, warned, kvm,
                   kvm_ram_size, diskVars, kvm_deletes, cmdlineVars,
                   setup_log, i, cpuVars>>

\* line 291, were the call made only with an image attached
MainDiskCloseEnterIfAttached ==
    /\ Alive /\ pc = "disk_close"
    /\ IF disk_image = "NULL" THEN UNCHANGED diskVars
                              ELSE DiskImageCloseEnter(MAIN)
    /\ Goto("in_disk_close")
    /\ UNCHANGED <<opts, irq_pending, engVars, optVars, warned, kvm,
                   kvm_ram_size, kvm_deletes, cmdlineVars, setup_log, i,
                   cpuVars>>
\* line 291
MainDiskCloseEnter ==
    /\ Alive /\ pc = "disk_close"
    /\ DiskImageCloseEnter(MAIN)
    /\ Goto("in_disk_close")
    /\ UNCHANGED <<opts, irq_pending, engVars, optVars, warned, kvm,
                   kvm_ram_size, kvm_deletes, cmdlineVars, setup_log, i,
                   cpuVars>>

MainDiskCloseLeave ==
    /\ Alive /\ pc = "in_disk_close"
    /\ DiskImageCloseLeave(MAIN)
    /\ Goto("kvm_delete")
    /\ UNCHANGED <<opts, irq_pending, engVars, optVars, warned, kvm,
                   kvm_ram_size, kvm_deletes, cmdlineVars, setup_log, i,
                   cpuVars>>

\* line 292
KvmDelete ==
    /\ Alive /\ pc = "kvm_delete"
    /\ kvm' = "deleted"
    /\ kvm_deletes' = kvm_deletes + 1
    /\ Goto("finish")
    /\ UNCHANGED <<opts, irq_pending, engVars, optVars, warned, kvm_ram_size,
                   diskVars, cmdlineVars, setup_log, i, cpuVars>>

\* lines 294-297
Finish ==
    /\ Alive /\ pc = "finish"
    /\ pc' = "exited"
    /\ exit_status' = "return"
    /\ printed' = (exit_code = 0)
    /\ UNCHANGED <<opts, irq_pending, engVars, exit_code, die_msg, optVars,
                   warned, kvm, kvm_ram_size, diskVars, kvm_deletes,
                   cmdlineVars, setup_log, i, cpuVars>>

(***************************************************************************)
(* The specification.                                                      *)
(***************************************************************************)
Next ==
    \/ InstallSignalHandlers \/ HandleSigquit \/ HandleSigalrm \/ HandlerFault
    \/ ParseOptions \/ ParseOptionsRefuse
    \/ KernelGiven \/ HostKernelFound \/ HostKernelMissing
    \/ CheckCpusDie \/ CheckCpus \/ CheckRamDie \/ CheckRam
    \/ TermInit \/ KvmInit
    \/ NoDiskImage \/ DiskImageOpen \/ DiskImageOpenDie
    \/ ComposeCmdline \/ LoadKernel \/ LoadKernelDie
    \/ IoportSetupLegacy \/ SetupBios \/ Serial8250Init \/ PciInit
    \/ VirtioBlkInit \/ VirtioConsoleInit \/ NetworkDefault \/ VirtioNetInit
    \/ StartTimer
    \/ CpuInit \/ CpuInitDie \/ EnableSinglestep \/ PthreadCreate
    \/ PthreadCreateDie \/ SpawnLoopEnd
    \/ \E n \in CpuIds :
          \/ CpuStartHalt(n) \/ CpuStartFail(n)
          \/ ReportExitReason(n)
          \/ ThreadDiskCloseEnter(n) \/ ThreadDiskCloseLeave(n)
          \/ ShowRegisters(n) \/ ShowCode(n) \/ ShowPageTables(n)
          \/ ThreadReturnHalted(n) \/ ThreadReturnFailed(n)
    \/ PthreadJoin \/ JoinLoopEnd
    \/ MainDiskCloseEnter \/ MainDiskCloseLeave \/ KvmDelete \/ Finish
    \/ Crash

Spec == Init /\ [][Next]_vars

(***************************************************************************)
(* Properties.                                                             *)
(***************************************************************************)
Spawned == {n \in CpuIds : tpc[n] # "nothread"}
Created == {n \in CpuIds : kvm_cpus[n] # "NULL"}
Requested == {n \in CpuIds : n < nrcpus}
\* kvm_cmd_run has joined its threads, torn down and returned
RunComplete == exit_status = "return" /\ kvm = "deleted"

\* C1: in every complete run with a disk image attached, the image has been
\* closed exactly once and kvm__delete called exactly once, whatever the
\* outcomes of the vCPU threads.
C1_ReleasedExactlyOnce ==
    (RunComplete /\ disk_image # "NULL")
        => (disk_closes = 1 /\ kvm_deletes = 1)

\* C2: nobody is inside disk_image__close on the image, and the VM has not
\* been deleted, while a spawned vCPU thread is still RUNNING.
C2_NoTeardownWhileRunning ==
    (in_close # {} \/ kvm = "deleted")
        => \A n \in Spawned : cpu_state[n] # "RUNNING"

\* C3: at most one thread is inside disk_image__close on the image.
C3_CloseNeverConcurrent == Cardinality(in_close) <= 1

\* C4: a requested CPU count of 2..255 yields at most one created engine
\* and at most one spawned thread.
C4_SingleEffectiveVcpu ==
    (opts.cpus \in 2..KVM_NR_CPUS)
        => (Cardinality(Created) <= 1 /\ Cardinality(Spawned) <= 1)

\* C5: when kvm_cmd_run returns after the joins, the exit code is 1 if some
\* vCPU thread ended FAILED and 0 if all ended HALTED, and the normal
\* termination message was printed exactly when the exit code is 0.
C5_ExitCodeAggregates ==
    RunComplete =>
        /\ \A n \in Requested : cpu_state[n] \in {"HALTED", "FAILED"}
        /\ exit_code = IF \E n \in Requested : cpu_state[n] = "FAILED"
                       THEN 1 ELSE 0
        /\ printed <=> (exit_code = 0)

\* a run where an earlier engine failed and a later one halted
C5_Witness ==
    /\ RunComplete /\ exit_code = 1 /\ ~printed
    /\ \E n, m \in Requested :
          n < m /\ cpu_state[n] = "FAILED" /\ cpu_state[m] = "HALTED"

\* the configuration errors, read off the command line and off the result
\* of the kernel search
BadCpus == opts.cpus < 1 \/ opts.cpus > 255
BadMem == opts.mem[4] = 0 /\ opts.mem[3] = 0 /\ opts.mem[2] = 0 /\ opts.mem[1] < 64
NoKernel ==
    /\ pc \notin {"signal", "parse_options", "find_kernel"}
    /\ kernel_filename = "NULL"
NothingAllocated ==
    /\ kvm = "NULL" /\ setup_log = <<>> /\ kvm_deletes = 0
    /\ disk_image = "NULL" /\ disk_closes = 0
    /\ Created = {} /\ Spawned = {}
    /\ \A n \in CpuIds : cpu_state[n] = "NONE"

\* C6: with a CPU count outside [1,255], a memory size below 64 MiB or no
\* kernel image, kvm_cmd_run never gets past its checks: kvm__init is not
\* called, no disk image is opened, no vCPU is created or started.
C6_ConfigErrorAllocatesNothing ==
    (BadCpus \/ BadMem \/ NoKernel)
        => /\ NothingAllocated
           /\ pc \in {"signal", "parse_options", "find_kernel", "check_cpus",
                     "check_ram",
                      "exited"}

\* the memory check has refused a size below the minimum
C6_Witness ==
    /\ BadMem /\ ~BadCpus
    /\ exit_status = "die" /\ die_msg = "Not enough memory specified"
    /\ NothingAllocated

\* C7: the byte size kvm__init was given is at least 64 MiB.
C7_InitRamAtLeastMinimum ==
    (kvm # "NULL") => ~U64Lt(kvm_ram_size, <<0, 64, 0, 0>>)

\* "root=" occurs in s
ContainsRoot(s) ==
    \E k \in 1..Len(s) :
        /\ k + 4 <= Len(s)
        /\ s[k] = "r" /\ s[k + 1] = "o" /\ s[k + 2] = "o" /\ s[k + 3] = "t"
        /\ s[k + 4] = "="
\* the baseline, the default root arguments exactly when the caller's text
\* is absent or lacks "root=", then the caller's text
Untruncated ==
    BaselineCmdline
        \o (IF opts.params = <<>> \/ ~ContainsRoot(opts.params[1])
            THEN DefaultRoot ELSE <<>>)
        \o (IF opts.params = <<>> THEN <<>> ELSE opts.params[1])
IsPrefix(a, b) == Len(a) <= Len(b) /\ a = SubSeq(b, 1, Len(a))
CmdlineComposed == pc = "load_kernel"

\* C8 as stated: the composed command line is the baseline, the default
\* root arguments exactly when the caller's text is absent or lacks
\* "root=", and the caller's text.
C8_ComposedIsUntruncated ==
    CmdlineComposed => real_cmdline = Untruncated

\* C8, amended: the composed command line is the first 2047 characters of
\* the baseline, the default root arguments exactly when the caller's text
\* is absent or lacks "root=", and the caller's text.
C8_ComposedUpToTruncation ==
    CmdlineComposed =>
        LET whole == Untruncated
        IN  /\ IsPrefix(BaselineCmdline, real_cmdline)
            /\ real_cmdline =
                  SubSeq(whole, 1, IF Len(whole) > 2047 THEN 2047 ELSE Len(whole))

\* a caller's text with "root=" inside it, passed through whole
C8_Witness ==
    /\ CmdlineComposed
    /\ opts.params # <<>> /\ ContainsRoot(opts.params[1])
    /\ opts.params[1][1] # "r"
    /\ real_cmdline = BaselineCmdline \o opts.params[1]

\* C9: the composition never writes more than the 2048 bytes of the buffer,
\* holds at most 2047 characters and is a prefix of the untruncated
\* composition; and the step that composes it always leads to the kernel
\* load, never to a failure, however long the caller's text is.
C9_ComposedFitsBuffer ==
    /\ [](/\ cmdline_extent <= 2048
          /\ Len(real_cmdline) <= 2047
          /\ CmdlineComposed => IsPrefix(real_cmdline, Untruncated))
    /\ [][(pc = "cmdline" /\ pc' # pc)
             => (pc' = "load_kernel" /\ exit_status' = "none")]_vars

\* an over-long caller's text, cut to fill the buffer
C9_Witness ==
    /\ CmdlineComposed
    /\ Len(Untruncated) > 2047
    /\ Len(real_cmdline) = 2047 /\ cmdline_extent = 2048

\* C10: no vCPU thread has been started while a requested engine is still
\* uncreated.
C10_AllCreatedBeforeAnyStart ==
    (Spawned # {}) => (Requested \subseteq Created)

\* the fatal errors of startup after the configuration is accepted
StartupFatal ==
    {"unable to load disk image", "unable to load kernel",
     "unable to initialize KVM VCPU", "unable to create KVM VCPU thread"}

\* C11: when startup has failed fatally (the disk image cannot be opened, the
\* kernel cannot be loaded, a vCPU cannot be initialised, a thread cannot be
\* created), no vCPU thread has been started.
C11_FatalBeforeAnyThread ==
    (exit_status = "die" /\ die_msg \in StartupFatal) => Spawned = {}

\* the threads that took the panic path and returned 1
FailedThreads == {n \in CpuIds : ret[n] = 1}

\* C12 as stated: with no image attached, disk_image__close is never called,
\* neither at shutdown nor on the panic path.
C12_CloseOnlyWhenAttached ==
    disk_image = "NULL" => null_closes = 0

\* C12, amended: disk_image__close is called once at shutdown and once by
\* every failing vCPU thread, whether or not an image is attached; with no
\* image attached each of these calls is handed NULL and closes nothing.
C12_CloseCalledRegardless ==
    /\ RunComplete => disk_closes + null_closes = 1 + Cardinality(FailedThreads)
    /\ disk_image = "NULL" => (disk_closes = 0 /\ in_close = {} /\ ~ub)
    /\ (RunComplete /\ ~opts.image)
          => (disk_image = "NULL"
              /\ null_closes = 1 + Cardinality(FailedThreads))

\* a run without an image in which a failing thread and the shutdown have
\* each called disk_image__close(NULL)
C12_Witness ==
    /\ RunComplete /\ ~opts.image
    /\ FailedThreads # {}
    /\ null_closes >= 2 /\ disk_closes = 0

\* lines 224-267 in order: the one-time setup of a run with these options
ExpectedSetup ==
    <<"term_init", "kvm__init">>
    \o (IF opts.image THEN <<"disk_image__open">> ELSE <<>>)
    \o <<"kvm__load_kernel", "ioport__setup_legacy", "kvm__setup_bios",
         "serial8250__init", "pci__init", "virtio_blk__init",
         "virtio_console__init">>
    \o (IF opts.network = "virtio" THEN <<"virtio_net__init">> ELSE <<>>)
    \o <<"kvm__start_timer">>

\* C13: once a vCPU engine exists or a vCPU thread has been spawned, every
\* one-time setup step (kvm__init, the disk attach when an image is asked
\* for, the kernel load, legacy I/O, BIOS, serial, PCI, virtio-blk,
\* virtio-console, virtio-net when selected, the timer start) has run exactly
\* once, in this order, and none runs at any later point.
C13_SetupBeforeFirstThread ==
    (Spawned # {} \/ Created # {}) => setup_log = ExpectedSetup

\* a complete run with a disk image and virtio networking
C13_Witness ==
    /\ RunComplete /\ Spawned # {}
    /\ opts.image /\ opts.network = "virtio"
    /\ Len(setup_log) = 12

\* the setup calls that initialise a device or arm the timer (lines 249-267)
DeviceSteps ==
    {"ioport__setup_legacy", "kvm__setup_bios", "serial8250__init",
     "pci__init", "virtio_blk__init", "virtio_console__init",
     "virtio_net__init", "kvm__start_timer"}

\* C14: once the requested disk image could not be opened or the kernel could
\* not be loaded, the process has exited through die: no device has been
\* initialised, the timer is not armed and has not ticked, no vCPU engine has
\* been created, no thread started, and kvm_cmd_run has not returned (so it
\* has not returned 0, nor printed its success message).
C14_LoadFailureIsFatal ==
    die_msg \in {"unable to load disk image", "unable to load kernel"}
        => /\ exit_status = "die" /\ pc = "exited"
           /\ \A k \in 1..Len(setup_log) : setup_log[k] \notin DeviceSteps
           /\ ~TimerArmed /\ irq_pending \subseteq SigquitRequests
           /\ Created = {} /\ Spawned = {}
           /\ \A n \in CpuIds : cpu_state[n] = "NONE"
           /\ ~printed /\ kvm_deletes = 0

\* the kernel load fails after the disk image was opened
C14_Witness ==
    /\ die_msg = "unable to load kernel" /\ exit_status = "die"
    /\ disk_image = "open"

\* lines 123-132: what the panic path does before it deletes the engine
PanicDiagnostics ==
    <<"report", "disk_close", "show_registers", "show_code",
      "show_page_tables">>

\* the engines that kvm_cpu__delete has been called on
Deleted == {e \in CpuIds : cpu_deletes[e] > 0}

\* C15: an engine is deleted at most once, and only by the thread that runs
\* it, which returns in the same step.  A thread that has returned has
\* deleted its engine exactly once: it returned 0 when the engine HALTED,
\* with no diagnostic in between, and 1 when the engine FAILED, after the
\* exit-reason report, the register dump, the code dump and the page-table
\* dump, in this order.
C15_DeletedOnceByOwnThread ==
    /\ \A e \in CpuIds :
          /\ cpu_deletes[e] <= 1
          /\ deleted_by[e] \subseteq run_by[e]
          /\ Cardinality(deleted_by[e]) = cpu_deletes[e]
          /\ \A n \in deleted_by[e] : tpc[n] = "returned"
    /\ \A n \in Spawned :
          LET e == current_kvm_cpu[n] IN
          /\ tpc[n] = "returned" <=> ret[n] \in {0, 1}
          /\ tpc[n] = "returned" => (cpu_deletes[e] = 1 /\ deleted_by[e] = {n})
          /\ tpc[n] # "returned" => e \notin Deleted
          /\ ret[n] = 0 => (cpu_state[e] = "HALTED" /\ diag[n] = <<>>)
          /\ ret[n] = 1 => (cpu_state[e] = "FAILED"
                            /\ diag[n] = PanicDiagnostics)
          /\ cpu_state[e] = "HALTED" => tpc[n] \in {"delete_halted", "returned"}

\* one thread has returned after a halt and another after a failure
C15_Witness ==
    \E n, m \in Spawned :
        /\ ret[n] = 0 /\ ret[m] = 1
        /\ cpu_deletes[current_kvm_cpu[n]] = 1
        /\ cpu_deletes[current_kvm_cpu[m]] = 1

\* the spawned threads whose engine is still RUNNING
RunningThreads ==
    {n \in Spawned : cpu_state[current_kvm_cpu[n]] = "RUNNING"}

\* C16: kvm_cmd_run waits for its threads unconditionally: while a spawned
\* thread is RUNNING the run has not ended, by return or otherwise, so no
\* RUNNING sibling is ever stopped; and once every spawned thread is HALTED
\* or FAILED and has returned, the run has not ended in any way but the
\* return of kvm_cmd_run.
C16_WaitsForEveryThread ==
    /\ exit_status # "none" => RunningThreads = {}
    /\ (pc \notin {"cpu_init", "singlestep", "pthread_create"}
        /\ Spawned # {} /\ \A n \in Spawned : tpc[n] = "returned")
          => exit_status \in {"none", "return"}

\* the place of a setup call in the log, 0 when it has not been made
RECURSIVE PlaceFrom(_, _)
PlaceFrom(name, k) ==
    IF k > Len(setup_log) THEN 0
    ELSE IF setup_log[k] = name THEN k
    ELSE PlaceFrom(name, k + 1)
Place(name) == PlaceFrom(name, 1)
Initialised(name) == Place(name) > 0

\* C17: the timer is armed only after serial8250__init and
\* virtio_console__init have been called, so a tick finds both devices
\* initialised; and a tick requests the injection into both of them: the
\* serial request is never pending without the virtio-console request.
C17_TicksReachInitialisedDevices ==
    /\ TimerArmed
          => /\ Initialised("serial8250__init")
             /\ Initialised("virtio_console__init")
             /\ Place("serial8250__init") < Place("kvm__start_timer")
             /\ Place("virtio_console__init") < Place("kvm__start_timer")
    /\ (irq_pending \cap {"serial", "virtio_console"}) # {}
          => /\ TimerArmed
             /\ {"serial", "virtio_console"} \subseteq irq_pending

\* a tick has been handled while a vCPU is RUNNING
C17_Witness ==
    /\ {"serial", "virtio_console"} \subseteq irq_pending
    /\ RunningThreads # {}

\* C18: the engines created have pairwise distinct indices, every spawned
\* thread was handed an engine that exists and that no other thread was
\* handed, and no engine is run or deleted by two threads.
C18_OneThreadPerEngine ==
    /\ \A a, b \in Created : a # b => cpu_index[a] # cpu_index[b]
    /\ \A a \in Created : cpu_index[a] \in 0..(nrcpus - 1)
    /\ \A n, m \in Spawned :
          n # m => current_kvm_cpu[n] # current_kvm_cpu[m]
    /\ \A n \in Spawned :
          /\ current_kvm_cpu[n] \in Created
          /\ run_by[current_kvm_cpu[n]] = {n}
    /\ \A e \in CpuIds :
          /\ Cardinality(run_by[e] \cup deleted_by[e]) <= 1
          /\ run_by[e] # {} => e \in Created

\* two threads at work, each on its own engine
C18_Witness ==
    \E n, m \in Spawned :
        /\ n # m
        /\ current_kvm_cpu[n] # current_kvm_cpu[m]
        /\ deleted_by[current_kvm_cpu[n]] = {n}
        /\ run_by[current_kvm_cpu[m]] = {m}

\* a step in which a signal handler has made its requests
HandlerStep == irq_pending' # irq_pending

\* C19: a tick or a break signal handled while vCPUs are RUNNING changes
\* nothing of any engine or thread: not its state, its position, its
\* descriptor, nor what it returned.
C19_SignalsLeaveEnginesAlone ==
    [][(HandlerStep /\ RunningThreads # {})
          => (UNCHANGED <<cpuVars, engVars>> /\ exit_status' = "none")]_vars

\* both signals have been handled, and vCPUs are RUNNING next to one that
\* has returned
C19_Witness ==
    /\ irq_pending = {"sysrq", "serial", "virtio_console"}
    /\ RunningThreads # {}
    /\ \E n \in Spawned : tpc[n] = "returned"

\* C20: whenever an installed handler runs, the kvm it hands to the devices
\* is valid: set by kvm__init and not yet released by kvm__delete, and the
\* device the request is for has been initialised.
C20_HandlerFindsValidKvm ==
    [][HandlerStep
          => /\ kvm = "valid"
             /\ Initialised("serial8250__init")
             /\ "virtio_console" \in irq_pending'
                   => Initialised("virtio_console__init")]_vars

====
